---------------------------- MODULE Spec2Model ----------------------------
(***************************************************************************)
(* Model of pkg/restarter/utils.go of dependency-watchdog: the config      *)
(* loader and the pod / endpoint predicates used by the restarter.         *)
(*                                                                         *)
(* Go values are represented as follows.                                   *)
(*   - a pointer is a sequence of length 0 (nil) or 1 (the pointee);       *)
(*   - a slice is a record [isNil, elems]: a nil slice and an empty        *)
(*     non-nil slice are different values, as in Go;                       *)
(*   - a time is an integer number of clock ticks, tick 0 being the zero   *)
(*     time.Time; a second is Second ticks.                                *)
(***************************************************************************)
EXTENDS Integers, Sequences, FiniteSets, TLC

VARIABLES
    pod,              \* *v1.Pod handed to the predicates
    minReadySeconds,  \* int32 argument of IsPodAvailable
    now,              \* metav1.Time argument of IsPodAvailable (ticks)
    pc,               \* "start" before the first call, "returned" after one
    ready,            \* last result of IsPodReady
    available,        \* last result of IsPodAvailable
    lookup,           \* last result of GetPodCondition(&status, PodReady)
    prevAvailable,    \* pointer to [result, at] of the IsPodAvailable call before the last
    crashloop,        \* last result of IsPodInCrashloopBackoff
    shouldDelete,     \* last result of ShouldDeletePod
    observedDeletion, \* DeletionTimestamp of the pod as handed to ShouldDeletePod
    deletes,          \* number of delete requests issued for the pod
    subsets,          \* []v1.EndpointSubset handed to IsReadyEndpointPresentInSubsets
    endpointPresent,  \* last result of IsReadyEndpointPresentInSubsets
    disk,             \* what the file system holds at the path given to the loader
    config,           \* *ServiceDependants returned by LoadServiceDependants
    err               \* error returned by LoadServiceDependants

vars == <<pod, minReadySeconds, now, pc, ready, available, lookup, prevAvailable,
          crashloop, shouldDelete, observedDeletion, deletes,
          subsets, endpointPresent, disk, config, err>>

podVars == <<ready, available, lookup, prevAvailable, minReadySeconds, now>>
crashVars == <<crashloop, shouldDelete, observedDeletion, deletes>>
endpointVars == <<subsets, endpointPresent>>
loaderVars == <<disk, config, err>>

-----------------------------------------------------------------------------
(* Bounds of the model *)

MaxConditions == 2   \* longest Conditions list
MaxStamp == 1        \* latest LastTransitionTime, in ticks
MaxSeconds == 1      \* largest minReadySeconds
MaxContainers == 2   \* longest ContainerStatuses list
MaxDeletes == 3      \* cap of the delete counter
MaxSubsets == 2      \* longest list of endpoint subsets
MaxAddresses == 1    \* longest address list of a subset
MaxEntries == 3      \* longest config document, in entries

-----------------------------------------------------------------------------
(* Go values *)

Nil == <<>>
Ptr(v) == <<v>>
Deref(p) == p[1]

NilSlice == [isNil |-> TRUE, elems |-> <<>>]
MakeSlice(e) == [isNil |-> FALSE, elems |-> e]

SeqsUpTo(S, n) == UNION {[1..k -> S] : k \in 0..n}
SlicesOf(S, n) == {NilSlice} \cup {MakeSlice(e) : e \in SeqsUpTo(S, n)}

\* time.Second, in clock ticks
Second == 2

IsZero(t) == t = 0
Add(t, d) == t + d
Before(t, u) == t < u

-----------------------------------------------------------------------------
(* Kubernetes types read by the predicates *)

PodReady == "Ready"
ConditionTrue == "True"
ConditionTypes == {PodReady, "PodScheduled"}
ConditionStatuses == {ConditionTrue, "False", "Unknown"}
Stamps == 0..MaxStamp

PodConditions ==
    [Type : ConditionTypes, Status : ConditionStatuses, LastTransitionTime : Stamps]

CrashLoopBackOff == "CrashLoopBackOff"
WaitingReasons == {CrashLoopBackOff, "ImagePullBackOff", "crashloopbackoff", ""}

\* A container state holds three pointers; the platform sets at most one.
ContainerStates ==
    {[Waiting |-> Ptr([Reason |-> r]), Running |-> Nil, Terminated |-> Nil] : r \in WaitingReasons}
    \cup {[Waiting |-> Nil, Running |-> Ptr([StartedAt |-> 1]), Terminated |-> Nil],
          [Waiting |-> Nil, Running |-> Nil, Terminated |-> Ptr([ExitCode |-> 1])],
          [Waiting |-> Nil, Running |-> Nil, Terminated |-> Nil]}

ContainerStatusValues == [State : ContainerStates]

MakePod(deletion, conditions, containers) ==
    [DeletionTimestamp |-> deletion,
     Status |-> [Conditions |-> conditions, ContainerStatuses |-> containers]]

-----------------------------------------------------------------------------
(* Pod readiness and availability *)

NotFound == [index |-> -1, condition |-> Nil]

RECURSIVE ScanConditions(_, _, _)
ScanConditions(conditions, conditionType, i) ==
    IF i > Len(conditions.elems) THEN NotFound
    ELSE IF conditions.elems[i].Type = conditionType
         THEN [index |-> i - 1, condition |-> Ptr(conditions.elems[i])]
         ELSE ScanConditions(conditions, conditionType, i + 1)

RECURSIVE ScanConditionsLast(_, _, _)
ScanConditionsLast(conditions, conditionType, i) ==
    IF i < 1 THEN NotFound
    ELSE IF conditions.elems[i].Type = conditionType
         THEN [index |-> i - 1, condition |-> Ptr(conditions.elems[i])]
         ELSE ScanConditionsLast(conditions, conditionType, i - 1)

\* Mutant: the scan keeps the last match instead of returning at the first.
GetPodConditionFromList_LastMatch(conditions, conditionType) ==
    IF conditions.isNil THEN NotFound
    ELSE ScanConditionsLast(conditions, conditionType, Len(conditions.elems))

GetPodConditionFromList(conditions, conditionType) ==
    IF conditions.isNil THEN NotFound
    ELSE ScanConditions(conditions, conditionType, 1)

\* The status is passed by address, so the nil test of the source never holds.
GetPodCondition(status, conditionType) ==
    GetPodConditionFromList(status.Conditions, conditionType)

GetPodReadyCondition(status) == GetPodCondition(status, PodReady).condition

\* Mutant: the status of the condition is not looked at.
IsPodReadyConditionTrue_AnyStatus(status) ==
    LET condition == GetPodReadyCondition(status)
    IN  condition # Nil

IsPodReadyConditionTrue(status) ==
    LET condition == GetPodReadyCondition(status)
    IN  condition # Nil /\ Deref(condition).Status = ConditionTrue

IsPodReady(p) == IsPodReadyConditionTrue(p.Status)

\* Mutant: the soak window is closed at its end (not-after instead of before).
IsPodAvailable_Inclusive(p, mrs, t) ==
    IF ~IsPodReady(p) THEN FALSE
    ELSE LET c == Deref(GetPodReadyCondition(p.Status))
             minReadySecondsDuration == mrs * Second
         IN  mrs = 0
             \/ (~IsZero(c.LastTransitionTime)
                 /\ Add(c.LastTransitionTime, minReadySecondsDuration) <= t)

\* Mutant: an unset transition time is compared like any other.
IsPodAvailable_ZeroStampUsed(p, mrs, t) ==
    IF ~IsPodReady(p) THEN FALSE
    ELSE LET c == Deref(GetPodReadyCondition(p.Status))
             minReadySecondsDuration == mrs * Second
         IN  mrs = 0
             \/ Before(Add(c.LastTransitionTime, minReadySecondsDuration), t)

\* Mutant: the operands of the comparison are swapped.
IsPodAvailable_Swapped(p, mrs, t) ==
    IF ~IsPodReady(p) THEN FALSE
    ELSE LET c == Deref(GetPodReadyCondition(p.Status))
             minReadySecondsDuration == mrs * Second
         IN  mrs = 0
             \/ (~IsZero(c.LastTransitionTime)
                 /\ Before(t, Add(c.LastTransitionTime, minReadySecondsDuration)))

IsPodAvailable(p, mrs, t) ==
    IF ~IsPodReady(p) THEN FALSE
    ELSE LET c == Deref(GetPodReadyCondition(p.Status))
             minReadySecondsDuration == mrs * Second
         IN  IF mrs = 0
                \/ (~IsZero(c.LastTransitionTime)
                    /\ Before(Add(c.LastTransitionTime, minReadySecondsDuration), t))
             THEN TRUE
             ELSE FALSE

-----------------------------------------------------------------------------
(* Availability: the caller evaluates one pod snapshot at the times it     *)
(* reads from a clock that never runs backwards.                           *)

ConditionLists == SlicesOf(PodConditions, MaxConditions)
\* minReadySeconds is a number of seconds that is not negative
ReadySecondsValues == 0..MaxSeconds
\* two ticks past the end of the longest soak window
LastTick == MaxStamp + MaxSeconds * Second + 2
Ticks == 0..LastTick

IdleCrash ==
    /\ crashloop = FALSE
    /\ shouldDelete = FALSE
    /\ observedDeletion = Nil
    /\ deletes = 0

IdleEndpoints ==
    /\ subsets = NilSlice
    /\ endpointPresent = FALSE

IdleLoader ==
    /\ disk = [readErr |-> Nil, data |-> <<>>]
    /\ config = Nil
    /\ err = Nil

IdlePod ==
    /\ minReadySeconds = 0
    /\ now = 0
    /\ ready = FALSE
    /\ available = FALSE
    /\ lookup = NotFound
    /\ prevAvailable = Nil

PodInputs ==
    /\ pod \in {MakePod(Nil, c, NilSlice) : c \in ConditionLists}
    /\ minReadySeconds \in ReadySecondsValues
    /\ pc = "start"
    /\ ready = FALSE
    /\ available = FALSE
    /\ lookup = NotFound
    /\ prevAvailable = Nil
    /\ IdleCrash
    /\ IdleEndpoints
    /\ IdleLoader

\* One evaluation of the pod at clock reading t.
EvaluatePod(t) ==
    /\ t >= now
    /\ now' = t
    /\ pc' = "returned"
    /\ ready' = IsPodReady(pod)
    /\ lookup' = GetPodCondition(pod.Status, PodReady)
    /\ available' = IsPodAvailable(pod, minReadySeconds, t)
    /\ prevAvailable' = IF pc = "returned"
                        THEN Ptr([result |-> available, at |-> now])
                        ELSE Nil
    /\ UNCHANGED <<pod, minReadySeconds>>
    /\ UNCHANGED <<crashVars, endpointVars, loaderVars>>

\* The predicates called once, on any pod, soak time and time.
InitAvail == PodInputs /\ now \in Ticks

EvaluateOnce == pc = "start" /\ EvaluatePod(now)

NextAvail == EvaluateOnce

SpecAvail == InitAvail /\ [][NextAvail]_vars

\* The predicates called again and again on one pod, from tick 0 on.
InitSoak == PodInputs /\ now = 0

NextSoak == \E t \in Ticks : EvaluatePod(t)

SpecSoak == InitSoak /\ [][NextSoak]_vars

-----------------------------------------------------------------------------
(* Properties of readiness and availability *)

Conditions(p) == p.Status.Conditions.elems
IndexesOf(p, ty) == {i \in 1..Len(Conditions(p)) : Conditions(p)[i].Type = ty}

\* The Ready condition that comes first in the list: a set of at most one element.
FirstReady(p) ==
    {Conditions(p)[i] : i \in {j \in IndexesOf(p, PodReady) :
                                  \A k \in IndexesOf(p, PodReady) : j <= k}}

SoakEnd(c, s) == c.LastTransitionTime + s * Second

\* Every value of the int32 argument within the bound, the negative ones included.
AnySeconds == (-MaxSeconds)..MaxSeconds

\* C1 as stated: for a pod whose Ready condition is True with LastTransitionTime t,
\* and every minReadySeconds s, IsPodAvailable is true exactly when now > t + s.
C1_AvailableIffSoaked ==
    pc = "returned" =>
        \A c \in FirstReady(pod) :
            c.Status = ConditionTrue =>
                (available <=> now > SoakEnd(c, minReadySeconds))

\* C1 amended: for a pod whose Ready condition is True with a set (non-zero)
\* LastTransitionTime t, and every non-zero minReadySeconds s, IsPodAvailable is
\* false for every now <= t + s and true for every now > t + s.
C1_AvailableIffSoakedWhenSet ==
    pc = "returned" =>
        \A c \in FirstReady(pod) :
            (c.Status = ConditionTrue /\ c.LastTransitionTime # 0 /\ minReadySeconds # 0) =>
                (available <=> now > SoakEnd(c, minReadySeconds))

\* C1: an evaluation exactly at the end of the soak window, which gives false.
C1_Witness ==
    /\ pc = "returned"
    /\ minReadySeconds > 0
    /\ ~available
    /\ \E c \in FirstReady(pod) :
          /\ c.Status = ConditionTrue
          /\ c.LastTransitionTime # 0
          /\ now = SoakEnd(c, minReadySeconds)

\* C2: IsPodReady is true iff the Ready condition exists and its status is True,
\* and a pod that is not ready is not available for any minReadySeconds and now.
C2_ReadinessPrecondition ==
    pc = "returned" =>
        /\ ready <=> (\E c \in FirstReady(pod) : c.Status = ConditionTrue)
        /\ ~ready =>
              /\ ~available
              /\ \A s \in AnySeconds : ~IsPodAvailable(pod, s, now)

\* C2: a pod whose Ready condition is Unknown, evaluated with no soak time required.
C2_Witness ==
    /\ pc = "returned"
    /\ ~ready
    /\ ~available
    /\ minReadySeconds = 0
    /\ \E c \in FirstReady(pod) : c.Status = "Unknown"

\* C3: for a pod whose Ready condition is True with a zero LastTransitionTime,
\* IsPodAvailable is true for minReadySeconds = 0 and false for every other
\* minReadySeconds, at every now.
C3_ZeroStampNeverCompared ==
    pc = "returned" =>
        \A c \in FirstReady(pod) :
            (c.Status = ConditionTrue /\ c.LastTransitionTime = 0) =>
                /\ available <=> minReadySeconds = 0
                /\ \A s \in AnySeconds : IsPodAvailable(pod, s, now) <=> s = 0

\* C3: a ready pod with an unset transition time, evaluated long after tick 0
\* with a soak time, is not available.
C3_Witness ==
    /\ pc = "returned"
    /\ minReadySeconds > 0
    /\ now = LastTick
    /\ ~available
    /\ \E c \in FirstReady(pod) : c.Status = ConditionTrue /\ c.LastTransitionTime = 0

IndexPermutations(n) == {f \in [1..n -> 1..n] : \A i, j \in 1..n : f[i] = f[j] => i = j}
Reordered(p, f) ==
    [p EXCEPT !.Status.Conditions.elems = [i \in 1..Len(Conditions(p)) |-> Conditions(p)[f[i]]]]
NoDuplicateTypes(p) == \A ty \in ConditionTypes : Cardinality(IndexesOf(p, ty)) <= 1

AvailableBy(c, s, t) ==
    /\ c.Status = ConditionTrue
    /\ s = 0 \/ (c.LastTransitionTime # 0 /\ SoakEnd(c, s) < t)

\* C8: GetPodConditionFromList returns the smallest index whose entry has the type,
\* with that entry, and (-1, nil) iff no entry has it; so readiness and availability
\* are decided by the first Ready condition, and reordering a list without duplicate
\* types changes neither.
C8_FirstMatchWins ==
    pc = "returned" =>
        /\ \A ty \in ConditionTypes \cup {"Initialized"} :
              LET r == GetPodConditionFromList(pod.Status.Conditions, ty)
                  m == IndexesOf(pod, ty)
              IN  /\ (r.index = -1) <=> (m = {})
                  /\ (r.condition = Nil) <=> (m = {})
                  /\ m # {} =>
                        /\ r.index + 1 \in m
                        /\ \A j \in m : r.index + 1 <= j
                        /\ r.condition = Ptr(Conditions(pod)[r.index + 1])
        /\ lookup = GetPodConditionFromList(pod.Status.Conditions, PodReady)
        /\ ready <=> (\E c \in FirstReady(pod) : c.Status = ConditionTrue)
        /\ available <=> (\E c \in FirstReady(pod) : AvailableBy(c, minReadySeconds, now))
        /\ NoDuplicateTypes(pod) =>
              \A f \in IndexPermutations(Len(Conditions(pod))) :
                  /\ IsPodReady(Reordered(pod, f)) = ready
                  /\ IsPodAvailable(Reordered(pod, f), minReadySeconds, now) = available

\* C8: a list with two Ready conditions, the first True and a later one not True.
C8_Witness ==
    /\ pc = "returned"
    /\ ready
    /\ lookup.index = 0
    /\ \E i \in IndexesOf(pod, PodReady) : i > 1 /\ Conditions(pod)[i].Status # ConditionTrue

\* C10: once an evaluation of the unchanged pod found it available, an evaluation
\* at the same or a later time finds it available too.
C10_AvailabilityMonotone ==
    (pc = "returned" /\ prevAvailable # Nil /\ Deref(prevAvailable).result) => available

\* C10: a pod with a soak time found available, and found available again later.
C10_Witness ==
    /\ pc = "returned"
    /\ minReadySeconds # 0
    /\ prevAvailable # Nil
    /\ Deref(prevAvailable).result
    /\ Deref(prevAvailable).at < now
    /\ available

-----------------------------------------------------------------------------
(* Crashloop detection and the deletion decision *)

\* Mutant: every waiting container counts, whatever the reason.
IsContainerInCrashLoopBackOff_AnyReason(containerState) ==
    containerState.Waiting # Nil

IsContainerInCrashLoopBackOff(containerState) ==
    IF containerState.Waiting # Nil
    THEN Deref(containerState.Waiting).Reason = CrashLoopBackOff
    ELSE FALSE

RECURSIVE ScanContainers(_, _)
ScanContainers(containerStatuses, i) ==
    IF i > Len(containerStatuses.elems) THEN FALSE
    ELSE IF IsContainerInCrashLoopBackOff(containerStatuses.elems[i].State)
         THEN TRUE
         ELSE ScanContainers(containerStatuses, i + 1)

IsPodInCrashloopBackoff(status) == ScanContainers(status.ContainerStatuses, 1)

IsPodDeleted(p) == p.DeletionTimestamp # Nil

\* Mutant: the negation of the deletion test is lost.
ShouldDeletePod_NotNegated(p) == IsPodDeleted(p) /\ IsPodInCrashloopBackoff(p.Status)

\* Mutant: the deletion test is left out.
ShouldDeletePod_NoDeletionTest(p) == IsPodInCrashloopBackoff(p.Status)

ShouldDeletePod(p) == ~IsPodDeleted(p) /\ IsPodInCrashloopBackoff(p.Status)

-----------------------------------------------------------------------------
(* The control loop around ShouldDeletePod: on every observation of the    *)
(* pod it asks ShouldDeletePod and issues a delete exactly when the answer *)
(* is true. A delete sets the DeletionTimestamp, which nothing clears.     *)

ContainerLists == SlicesOf(ContainerStatusValues, MaxContainers)
DeletionStamps == {Nil, Ptr(1)}

InitCrash ==
    /\ pod \in {MakePod(d, NilSlice, c) : d \in DeletionStamps, c \in ContainerLists}
    /\ pc = "start"
    /\ crashloop = FALSE
    /\ shouldDelete = FALSE
    /\ observedDeletion = Nil
    /\ deletes = 0
    /\ IdlePod
    /\ IdleEndpoints
    /\ IdleLoader

\* The loop's handling of one observation p of the pod.
Reconcile(p) ==
    /\ deletes < MaxDeletes
    /\ pc' = "returned"
    /\ observedDeletion' = p.DeletionTimestamp
    /\ crashloop' = IsPodInCrashloopBackoff(p.Status)
    /\ shouldDelete' = ShouldDeletePod(p)
    /\ IF ShouldDeletePod(p)
       THEN /\ deletes' = deletes + 1
            /\ pod' = [p EXCEPT !.DeletionTimestamp = Ptr(1)]
       ELSE /\ deletes' = deletes
            /\ pod' = p
    /\ UNCHANGED <<podVars, endpointVars, loaderVars>>

\* The pod is observed as it was.
Resync == Reconcile(pod)

\* The state of container i changed to st, and the pod is observed.
ContainerStateChanged(i, st) ==
    /\ i \in 1..Len(pod.Status.ContainerStatuses.elems)
    /\ pod.Status.ContainerStatuses.elems[i].State # st
    /\ Reconcile([pod EXCEPT !.Status.ContainerStatuses.elems[i].State = st])

NextCrash ==
    \/ Resync
    \/ \E i \in 1..MaxContainers, st \in ContainerStates : ContainerStateChanged(i, st)

SpecCrash == InitCrash /\ [][NextCrash]_vars

-----------------------------------------------------------------------------
(* Properties of the deletion decision *)

Containers(p) == p.Status.ContainerStatuses.elems

SomeContainerCrashLooping(p) ==
    \E i \in 1..Len(Containers(p)) :
        /\ Containers(p)[i].State.Waiting # Nil
        /\ Containers(p)[i].State.Waiting[1].Reason = "CrashLoopBackOff"

\* C4: ShouldDeletePod is true iff the DeletionTimestamp is unset and
\* IsPodInCrashloopBackoff is true; it is false whenever the DeletionTimestamp is set.
C4_DeleteIffCrashloopAndNotDeleted ==
    pc = "returned" =>
        /\ shouldDelete <=> (observedDeletion = Nil /\ crashloop)
        /\ observedDeletion # Nil => ~shouldDelete

\* C4: a pod already marked for deletion with a crashlooping container is left alone.
C4_Witness ==
    /\ pc = "returned"
    /\ deletes = 0
    /\ observedDeletion # Nil
    /\ crashloop
    /\ ~shouldDelete

\* C5: IsPodInCrashloopBackoff is true iff some container status has a Waiting state
\* whose Reason is exactly "CrashLoopBackOff"; false for a nil or empty list.
C5_CrashloopIffSomeContainerWaiting ==
    pc = "returned" =>
        /\ crashloop <=> SomeContainerCrashLooping(pod)
        /\ Len(Containers(pod)) = 0 => ~crashloop

\* C5: the second of two containers is the crashlooping one, the first waits for
\* another reason.
C5_Witness ==
    /\ pc = "returned"
    /\ crashloop
    /\ Len(Containers(pod)) >= 2
    /\ Containers(pod)[1].State.Waiting # Nil
    /\ Containers(pod)[1].State.Waiting[1].Reason # "CrashLoopBackOff"

\* C9: after the first delete, no observation answers true and no further delete
\* is issued, whatever the container states are.
C9_NeverDoubleDeleted ==
    [][deletes >= 1 => (~shouldDelete' /\ deletes' = deletes /\ deletes' <= 1)]_vars

\* C9: the pod was deleted once and is observed again, still crashlooping.
C9_Witness ==
    /\ pc = "returned"
    /\ deletes = 1
    /\ observedDeletion # Nil
    /\ crashloop
    /\ ~shouldDelete

-----------------------------------------------------------------------------
(* Endpoint subsets *)

EndpointAddresses == {[IP |-> "10.0.0.1"]}
AddressLists == SlicesOf(EndpointAddresses, MaxAddresses)
EndpointSubsets == [Addresses : AddressLists, NotReadyAddresses : AddressLists]
SubsetLists == SlicesOf(EndpointSubsets, MaxSubsets)

RECURSIVE ScanSubsets(_, _)
ScanSubsets(ss, i) ==
    IF i > Len(ss.elems) THEN FALSE
    ELSE IF Len(ss.elems[i].Addresses.elems) # 0
         THEN TRUE
         ELSE ScanSubsets(ss, i + 1)

\* Mutant: only the first subset is looked at.
IsReadyEndpointPresentInSubsets_FirstOnly(ss) ==
    Len(ss.elems) # 0 /\ Len(ss.elems[1].Addresses.elems) # 0

IsReadyEndpointPresentInSubsets(ss) == ScanSubsets(ss, 1)

InitEndpoints ==
    /\ subsets \in SubsetLists
    /\ endpointPresent = FALSE
    /\ pc = "start"
    /\ pod = MakePod(Nil, NilSlice, NilSlice)
    /\ IdlePod
    /\ IdleCrash
    /\ IdleLoader

CheckEndpoints ==
    /\ pc = "start"
    /\ pc' = "returned"
    /\ endpointPresent' = IsReadyEndpointPresentInSubsets(subsets)
    /\ UNCHANGED <<pod, subsets, podVars, crashVars, loaderVars>>

NextEndpoints == CheckEndpoints

SpecEndpoints == InitEndpoints /\ [][NextEndpoints]_vars

\* C6: IsReadyEndpointPresentInSubsets is true iff some subset of the list has at
\* least one address; false for a nil or empty list and when no subset has one.
C6_ReadyEndpointIffSomeAddress ==
    pc = "returned" =>
        /\ endpointPresent <=>
              (\E i \in 1..Len(subsets.elems) : subsets.elems[i].Addresses.elems # <<>>)
        /\ subsets.elems = <<>> => ~endpointPresent

\* C6: the only subset with an address is not the first of the list, and the
\* first has only not-ready addresses.
C6_Witness ==
    /\ pc = "returned"
    /\ endpointPresent
    /\ Len(subsets.elems) >= 2
    /\ subsets.elems[1].Addresses.elems = <<>>
    /\ subsets.elems[1].NotReadyAddresses.elems # <<>>

-----------------------------------------------------------------------------
(* The config loader *)

\* A document is a sequence of entries: a well-formed service entry, an entry
\* with a field of the wrong type, or text that is no YAML at all.
ServiceEntries == {"etcd", "kube-apiserver"}
DocumentEntries == ServiceEntries \cup {"badtype", "syntax"}
Documents == SeqsUpTo(DocumentEntries, MaxEntries)
ReadErrors == {"open: no such file or directory", "open: permission denied"}
SyntaxError == "yaml: did not find expected key"
TypeError == "json: cannot unmarshal string into Go value"

DiskStates ==
    {[readErr |-> Ptr(e), data |-> <<>>] : e \in ReadErrors}
    \cup {[readErr |-> Nil, data |-> d] : d \in Documents}

\* ioutil.ReadFile
ReadFile(file) == [data |-> file.data, err |-> file.readErr]

RECURSIVE DecodeEntries(_)
DecodeEntries(data) ==
    IF data = <<>> THEN <<>>
    ELSE IF Head(data) \in ServiceEntries
         THEN <<[Name |-> Head(data)]>> \o DecodeEntries(Tail(data))
         ELSE DecodeEntries(Tail(data))

\* yaml.Unmarshal into obj: text that is no YAML fails before obj is touched; a
\* field of the wrong type fails after the other fields were stored in obj.
Unmarshal(data, obj) ==
    IF \E i \in 1..Len(data) : data[i] = "syntax"
    THEN [obj |-> obj, err |-> Ptr(SyntaxError)]
    ELSE IF \E i \in 1..Len(data) : data[i] = "badtype"
         THEN [obj |-> [Services |-> DecodeEntries(data)], err |-> Ptr(TypeError)]
         ELSE [obj |-> [Services |-> DecodeEntries(data)], err |-> Nil]

NewServiceDependants == [Services |-> <<>>]

\* Mutant: the object is returned together with the error.
decodeConfigFile_KeepsObject(data) ==
    LET r == Unmarshal(data, NewServiceDependants)
    IN  [config |-> Ptr(r.obj), err |-> r.err]

decodeConfigFile(data) ==
    LET r == Unmarshal(data, NewServiceDependants)
    IN  IF r.err # Nil
        THEN [config |-> Nil, err |-> r.err]
        ELSE [config |-> Ptr(r.obj), err |-> Nil]

LoadServiceDependants(file) ==
    LET r == ReadFile(file)
    IN  IF r.err # Nil
        THEN [config |-> Nil, err |-> r.err]
        ELSE decodeConfigFile(r.data)

InitLoader ==
    /\ disk \in DiskStates
    /\ config = Nil
    /\ err = Nil
    /\ pc = "start"
    /\ pod = MakePod(Nil, NilSlice, NilSlice)
    /\ IdlePod
    /\ IdleCrash
    /\ IdleEndpoints

Load ==
    /\ pc = "start"
    /\ pc' = "returned"
    /\ config' = LoadServiceDependants(disk).config
    /\ err' = LoadServiceDependants(disk).err
    /\ UNCHANGED <<pod, disk, podVars, crashVars, endpointVars>>

NextLoader == Load

SpecLoader == InitLoader /\ [][NextLoader]_vars

Malformed(data) == \E i \in 1..Len(data) : data[i] \notin ServiceEntries

\* C7: the loader returns exactly one of a config and an error: a read or decode
\* failure gives a nil config and that very error, success gives a config and no error.
C7_ConfigOrError ==
    pc = "returned" =>
        /\ (config = Nil) <=> (err # Nil)
        /\ disk.readErr # Nil => (config = Nil /\ err = disk.readErr)
        /\ (disk.readErr = Nil /\ Malformed(disk.data)) =>
              /\ config = Nil
              /\ err = Unmarshal(disk.data, NewServiceDependants).err
              /\ err \in {Ptr(SyntaxError), Ptr(TypeError)}
        /\ (disk.readErr = Nil /\ ~Malformed(disk.data)) =>
              /\ err = Nil
              /\ config = Ptr([Services |-> [i \in 1..Len(disk.data) |-> [Name |-> disk.data[i]]]])

\* C7: a document whose first entry decodes and whose second has a wrong type:
\* the decoder has stored an entry, and the loader still returns no config.
C7_Witness ==
    /\ pc = "returned"
    /\ disk.readErr = Nil
    /\ Len(disk.data) >= 2
    /\ disk.data[1] \in ServiceEntries
    /\ disk.data[2] = "badtype"
    /\ config = Nil
    /\ err = Ptr(TypeError)

=============================================================================
